---- MODULE Spec2Model ----
(***************************************************************************)
(* A model of medic-cli's crash-diagnosis cycle (src/medic/cli.py,         *)
(* src/medic/brain.py, src/medic/logger.py).                               *)
(*                                                                         *)
(* Text is modelled as a sequence of one-character strings, so that        *)
(* str.strip, the `in` substring test, str.replace and readlines are       *)
(* computed as Python computes them.                                       *)
(***************************************************************************)
EXTENDS Integers, Sequences, FiniteSets, TLC

VARIABLES
    pc,             \* where run_script is
    dry_run,        \* run_script argument
    auto_fix,       \* run_script argument
    enable_logging, \* run_script argument
    backend,        \* run_script argument: a backend name or None
    ollama_up,      \* environment: the Ollama server answers /api/tags
    api_key,        \* environment: API_KEY or OPENAI_API_KEY is set
    patient,        \* environment: the file the traceback points to
    edits,          \* environment: external edits of the file so far
    captured_logs,  \* lines read from the child so far
    returncode,     \* process.returncode
    file_name,      \* parse_error's first result
    line_num,       \* parse_error's second result
    context,        \* run_script local
    origin,         \* which extractor produced context
    ai,             \* query_model local: the backend chosen
    backend_failed, \* the backend's reply is one of its error strings
    solution,       \* run_script local
    should_apply,   \* run_script local
    success,        \* apply_fix's return value
    read_at_apply,  \* the content apply_fix read (history)
    calls,          \* calls made in this cycle, in order
    message,        \* the closing message printed
    raised,         \* the exception that left run_script, if any
    global_logger,  \* logger._global_logger is not None
    logger,         \* run_script local: get_logger's result is not None
    reply,          \* what query_model returned, before it is sanitized
    user_choice,    \* run_script local: what the user typed at the prompt
    cycle           \* calls of run_script made in this process so far

vars == <<pc, dry_run, auto_fix, enable_logging, backend, ollama_up, api_key,
          patient, edits, captured_logs, returncode, file_name, line_num,
          context, origin, ai, backend_failed, solution, should_apply,
          success, read_at_apply, calls, message, raised, global_logger,
          logger, reply, user_choice, cycle>>

None == "None"

(***************************************************************************)
(* Bounds of the model.                                                    *)
(***************************************************************************)
MaxContent == 3     \* longest file content drawn for apply_fix
MaxCode == 2        \* longest old/new code drawn for apply_fix
MaxStream == 2      \* most lines the child prints in a cycle
MaxItems == 2       \* most items on a line of synthetic output
MaxLog == 2         \* most lines of synthetic output
MaxLines == 12      \* most lines of a generated file
MaxDefLine == 2     \* last line a generated definition may reach
MaxNodes == 2       \* most definitions of a generated file
MaxEdits == 1       \* most external edits of the file in a cycle

(***************************************************************************)
(* Text.                                                                   *)
(***************************************************************************)
Whitespace == {" ", "\n", "\t"}

RECURSIVE Strings(_, _)
\* all sequences over alphabet of length at most n
Strings(alphabet, n) ==
    IF n = 0 THEN {<<>>}
    ELSE LET shorter == Strings(alphabet, n - 1)
         IN  shorter \cup {Append(s, c) : s \in {t \in shorter : Len(t) = n - 1}, c \in alphabet}

Max(a, b) == IF a >= b THEN a ELSE b
Min(a, b) == IF a <= b THEN a ELSE b

\* s[i:] in Python terms, for a 1-based i
Drop(s, i) == SubSeq(s, i, Len(s))

RECURSIVE LStrip(_)
LStrip(s) ==
    IF s # <<>> /\ Head(s) \in Whitespace THEN LStrip(Tail(s)) ELSE s

RECURSIVE RStrip(_)
RStrip(s) ==
    IF s # <<>> /\ s[Len(s)] \in Whitespace
    THEN RStrip(SubSeq(s, 1, Len(s) - 1)) ELSE s

\* str.strip()
Strip(s) == RStrip(LStrip(s))

\* p occurs in s starting at index i
MatchAt(s, p, i) ==
    /\ i >= 1
    /\ i + Len(p) - 1 <= Len(s)
    /\ SubSeq(s, i, i + Len(p) - 1) = p

\* p in s
IsSubstr(p, s) == \E i \in 1..(Len(s) + 1) : MatchAt(s, p, i)

\* s.find(p) + 1, for a p that occurs in s
Find(s, p) == CHOOSE i \in 1..(Len(s) + 1) :
                 /\ MatchAt(s, p, i)
                 /\ \A j \in 1..(i - 1) : ~MatchAt(s, p, j)

RECURSIVE ReplaceFrom(_, _, _, _)
ReplaceFrom(s, old, new, i) ==
    IF old = <<>>
    THEN IF i > Len(s) THEN new
         ELSE new \o <<s[i]>> \o ReplaceFrom(s, old, new, i + 1)
    ELSE IF i > Len(s) THEN <<>>
         ELSE IF MatchAt(s, old, i)
              THEN new \o ReplaceFrom(s, old, new, i + Len(old))
              ELSE <<s[i]>> \o ReplaceFrom(s, old, new, i + 1)

\* s.replace(old, new): every non-overlapping occurrence, left to right
Replace(s, old, new) == ReplaceFrom(s, old, new, 1)

\* the replacement of the first occurrence alone: s.replace(old, new, 1)
ReplaceFirst(s, old, new) ==
    IF ~IsSubstr(old, s) THEN s
    ELSE LET k == Find(s, old)
         IN  SubSeq(s, 1, k - 1) \o new \o Drop(s, k + Len(old))

\* "".join(parts)
RECURSIVE Join(_)
Join(parts) == IF parts = <<>> THEN <<>> ELSE Head(parts) \o Join(Tail(parts))

RECURSIVE SplitFrom(_, _, _, _)
SplitFrom(s, nl, keepends, cur) ==
    IF s = <<>> THEN (IF cur = <<>> THEN <<>> ELSE <<cur>>)
    ELSE IF Head(s) = nl
         THEN <<(IF keepends THEN Append(cur, nl) ELSE cur)>>
                  \o SplitFrom(Tail(s), nl, keepends, <<>>)
         ELSE SplitFrom(Tail(s), nl, keepends, Append(cur, Head(s)))

\* str.splitlines(keepends) and file.readlines() (keepends = TRUE), with nl
\* the line break of the text
SplitLines(s, nl, keepends) == SplitFrom(s, nl, keepends, <<>>)

Reverse(s) == [i \in 1..Len(s) |-> s[Len(s) + 1 - i]]

(***************************************************************************)
(* The child's output.  A line of output is a sequence of items: a         *)
(* location marker  File "<path>", line <n>  (what the pattern of          *)
(* parse_error matches), other text, or the line break.  Paths hold no     *)
(* line break and no double quote, as the pattern requires.                *)
(***************************************************************************)
NoLine == 0 - 1
Marker(p, n) == [path |-> p, line |-> n]
Text == [path |-> "", line |-> NoLine]
NL == [path |-> "\n", line |-> NoLine]
IsMarker(item) == item.path \notin {"", "\n"} /\ item.line >= 0

\* re.search(pattern, line): the leftmost match in the line, 0 for no match
Search(line) ==
    IF \E i \in 1..Len(line) : IsMarker(line[i])
    THEN CHOOSE i \in 1..Len(line) :
            /\ IsMarker(line[i])
            /\ \A j \in 1..(i - 1) : ~IsMarker(line[j])
    ELSE 0

RECURSIVE FirstMatching(_)
\* the loop of parse_error over the lines it is given, in the order given
FirstMatching(lines) ==
    IF lines = <<>> THEN <<None, NoLine>>
    ELSE LET match == Search(Head(lines))
         IN  IF match # 0
             THEN <<Head(lines)[match].path, Head(lines)[match].line>>
             ELSE FirstMatching(Tail(lines))

\* parse_error scanning from the first line on
parse_error_forward(error_text) ==
    FirstMatching(SplitLines(error_text, NL, FALSE))

parse_error(error_text) ==
    FirstMatching(Reverse(SplitLines(error_text, NL, FALSE)))

(***************************************************************************)
(* The patient file.  A file is its content (text), whether open() on it   *)
(* succeeds, whether ast.parse accepts it, and the definition nodes of its *)
(* syntax tree.  A node is [kind, lineno, end_lineno, col_offset,          *)
(* end_col_offset] as the ast module reports them.                         *)
(***************************************************************************)
NodeKinds == {"FunctionDef", "AsyncFunctionDef", "ClassDef"}

\* a sentinel text for Python's None where a text is expected
NoText == <<None>>
Truthy(text) == text # NoText /\ text # <<>>

Encloses(node, line) == node.lineno <= line /\ line <= node.end_lineno

\* the number of nodes of the tree a node lies inside
Depth(nodes, node) ==
    Cardinality({a \in nodes : /\ a # node
                               /\ a.lineno < node.lineno
                               /\ node.end_lineno <= a.end_lineno})

RECURSIVE SortNodes(_, _)
SortNodes(all, rest) ==
    IF rest = {} THEN <<>>
    ELSE LET first == CHOOSE a \in rest : \A b \in rest :
                          \/ Depth(all, a) < Depth(all, b)
                          \/ /\ Depth(all, a) = Depth(all, b)
                             /\ a.lineno <= b.lineno
         IN  <<first>> \o SortNodes(all, rest \ {first})

\* ast.walk: breadth first, so by depth and, at one depth, in source order
Walk(nodes) == SortNodes(nodes, nodes)

\* ast.get_source_segment(content, node)
get_source_segment(content, node) ==
    LET lines == SplitLines(content, "\n", TRUE)
        first == lines[node.lineno]
        last == lines[node.end_lineno]
    IN  IF node.lineno = node.end_lineno
        THEN SubSeq(first, node.col_offset + 1, node.end_col_offset)
        ELSE Drop(first, node.col_offset + 1)
               \o Join(SubSeq(lines, node.lineno + 1, node.end_lineno - 1))
               \o SubSeq(last, 1, node.end_col_offset)

RECURSIVE FirstEnclosing(_, _, _)
\* the loop of get_context: the first node of the walk, of one of the kinds,
\* that encloses the line; NoText when there is none
FirstEnclosing(walk, kinds, crash_line) ==
    IF walk = <<>> THEN [found |-> FALSE, node |-> [kind |-> None]]
    ELSE IF Head(walk).kind \in kinds /\ Encloses(Head(walk), crash_line)
         THEN [found |-> TRUE, node |-> Head(walk)]
         ELSE FirstEnclosing(Tail(walk), kinds, crash_line)

\* isinstance(node, ast.FunctionDef): ast.AsyncFunctionDef is no subclass of it
IsFunctionDef == {"FunctionDef"}

\* get_context on a file that can be opened
get_context(file, crash_line) ==
    IF ~file.parsable THEN NoText
    ELSE LET hit == FirstEnclosing(Walk(file.nodes), IsFunctionDef, crash_line)
         IN  IF hit.found THEN get_source_segment(file.content, hit.node)
             ELSE NoText

\* the default of get_file_window's window parameter
window == 5

\* get_file_window with the slice's end one line short
get_file_window_short(file, crash_line) ==
    LET lines == SplitLines(file.content, "\n", TRUE)
        center_index == crash_line - 1
        start == Max(0, center_index - window)
        end == Min(Len(lines), center_index + window)
    IN  Join(SubSeq(lines, start + 1, end))

\* get_file_window on a file that can be opened (Python clips a slice whose
\* start lies past the end to the empty list)
get_file_window(file, crash_line) ==
    LET lines == SplitLines(file.content, "\n", TRUE)
        center_index == crash_line - 1
        start == Max(0, center_index - window)
        end == Min(Len(lines), center_index + window + 1)
    IN  Join(SubSeq(lines, start + 1, end))

\* apply_fix without its membership test: the replacement is made and
\* reported as done whether or not the old code was found
apply_fix_unguarded(content, old_code, new_code) ==
    [ok |-> TRUE,
     content |-> IF IsSubstr(Strip(old_code), content)
                 THEN Replace(content, Strip(old_code), Strip(new_code))
                 ELSE content \o Strip(new_code)]

\* apply_fix: the returned flag and the content of the file afterwards
apply_fix(content, old_code, new_code) ==
    IF IsSubstr(Strip(old_code), content)
    THEN [ok |-> TRUE, content |-> Replace(content, Strip(old_code), Strip(new_code))]
    ELSE [ok |-> FALSE, content |-> content]

(***************************************************************************)
(* Generated files: n lines, each its indentation, one letter and a line   *)
(* break, with definitions on the lines the shapes name.                   *)
(***************************************************************************)
LineChar == <<"a", "b", "c", "d", "e", "f", "g", "h", "i", "j", "k", "l",
              "m", "n", "o", "p", "q", "r", "s", "t">>

Shapes(n) ==
    {sh \in [kind : NodeKinds, lineno : 1..Min(n, MaxDefLine),
             end_lineno : 1..Min(n, MaxDefLine)] : sh.lineno <= sh.end_lineno}

\* two definitions lie apart, or one strictly inside the body of the other
Laminar(a, b) ==
    \/ a.end_lineno < b.lineno
    \/ b.end_lineno < a.lineno
    \/ a.lineno < b.lineno /\ b.end_lineno <= a.end_lineno
    \/ b.lineno < a.lineno /\ a.end_lineno <= b.end_lineno

WellFormed(shapes) == \A a, b \in shapes : a # b => Laminar(a, b)

RECURSIVE SetsUpTo(_, _)
SetsUpTo(S, k) ==
    IF k = 0 THEN {{}}
    ELSE LET smaller == SetsUpTo(S, k - 1)
         IN  smaller \cup {t \cup {a} : t \in smaller, a \in S}

Trees(n) == {t \in SetsUpTo(Shapes(n), MaxNodes) : WellFormed(t)}

\* the definitions whose body holds the line
Indent(shapes, line) ==
    Cardinality({a \in shapes : a.lineno < line /\ line <= a.end_lineno})

Spaces(k) == [i \in 1..k |-> " "]

File(n, shapes, parsable, readable) ==
    [content |-> Join([i \in 1..n |->
                        Spaces(Indent(shapes, i)) \o <<LineChar[i], "\n">>]),
     readable |-> readable,
     parsable |-> parsable,
     nodes |-> {[kind |-> a.kind, lineno |-> a.lineno,
                 end_lineno |-> a.end_lineno,
                 col_offset |-> Indent(shapes, a.lineno),
                 end_col_offset |-> Indent(shapes, a.end_lineno) + 1] :
                a \in shapes}]

(***************************************************************************)
(* Backends (brain.py).                                                    *)
(***************************************************************************)
NoException == [type |-> None, hints |-> {}]

\* BackendFactory._backends
_backends == {"openai", "ollama"}

\* str.lower() on the backend names drawn
Lower(name) ==
    CASE name = "OpenAI" -> "openai"
      [] name = "OLLAMA" -> "ollama"
      [] OTHER -> name

\* OllamaBackend.is_available and OpenAIBackend.is_available
is_available(name, up, key) == IF name = "ollama" THEN up ELSE key

\* auto_select with the preference turned round: cloud before local
auto_select_cloud_first(up, key) ==
    IF is_available("openai", up, key)
    THEN [ai |-> "openai", calls |-> <<"openai.is_available">>,
          raised |-> NoException]
    ELSE IF is_available("ollama", up, key)
         THEN [ai |-> "ollama",
               calls |-> <<"openai.is_available", "ollama.is_available">>,
               raised |-> NoException]
         ELSE [ai |-> None,
               calls |-> <<"openai.is_available", "ollama.is_available">>,
               raised |-> [type |-> "RuntimeError",
                           hints |-> {"Install Ollama", "set OPENAI_API_KEY"}]]

\* BackendFactory.auto_select: the backend returned, the availability probes
\* evaluated, and the exception raised
auto_select(up, key) ==
    IF is_available("ollama", up, key)
    THEN [ai |-> "ollama", calls |-> <<"ollama.is_available">>,
          raised |-> NoException]
    ELSE IF is_available("openai", up, key)
         THEN [ai |-> "openai",
               calls |-> <<"ollama.is_available", "openai.is_available">>,
               raised |-> NoException]
         ELSE [ai |-> None,
               calls |-> <<"ollama.is_available", "openai.is_available">>,
               raised |-> [type |-> "RuntimeError",
                           hints |-> {"Install Ollama", "set OPENAI_API_KEY"}]]

\* BackendFactory.create
create(backend_name) ==
    IF Lower(backend_name) \notin _backends
    THEN [ai |-> None, calls |-> <<>>,
          raised |-> [type |-> "ValueError", hints |-> {}]]
    ELSE [ai |-> Lower(backend_name), calls |-> <<>>, raised |-> NoException]

\* the backtick character, written as a quote (TLA+ strings hold no backtick)
Backtick == "'"
Fence == <<Backtick, Backtick, Backtick>>
FencePython == Fence \o <<"p", "y", "t", "h", "o", "n">>

\* what a model may answer: a bare fix, a fenced fix, nothing
Answers == {<<"z">>, FencePython \o <<"\n", "z", "\n">> \o Fence, <<>>}

\* the error strings query returns ("Error: ...", "Connection Error: ...")
ErrorReply == <<"E", "r", "r", "o", "r">>

\* OllamaBackend.query and OpenAIBackend.query: the probes made and the
\* replies that may come back
query(name, up, key) ==
    IF name = "ollama"
    THEN [calls |-> <<"ollama.is_available">>,
          replies |-> IF ~is_available("ollama", up, key)
                      THEN {[failed |-> TRUE, text |-> ErrorReply]}
                      ELSE {[failed |-> FALSE, text |-> a] : a \in Answers}
                             \cup {[failed |-> TRUE, text |-> ErrorReply]}]
    ELSE [calls |-> <<>>,
          replies |-> IF ~key
                      THEN {[failed |-> TRUE, text |-> ErrorReply]}
                      ELSE {[failed |-> FALSE, text |-> a] : a \in Answers}
                             \cup {[failed |-> TRUE, text |-> ErrorReply]}]

\* query_model up to the choice of the backend
select(backend_arg, up, key) ==
    IF backend_arg = None THEN auto_select(up, key) ELSE create(backend_arg)

\* the sanitizing of the reply in run_script
Sanitize(text) == Strip(Replace(Replace(text, FencePython, <<>>), Fence, <<>>))

(***************************************************************************)
(* Logger (logger.py).                                                     *)
(***************************************************************************)
LOGGING_AVAILABLE == TRUE

\* get_logger: the global after the call; it is also the value returned
get_logger(global, enabled) == IF enabled /\ ~global THEN TRUE ELSE global

(***************************************************************************)
(* run_script (cli.py), one action per stretch between blocking calls.     *)
(***************************************************************************)
Finish(msg) == pc' = "done" /\ message' = msg

\* lines 121-140: get_logger, the banner, Popen
Start ==
    /\ pc = "start"
    /\ global_logger' = get_logger(global_logger, enable_logging /\ LOGGING_AVAILABLE)
    /\ logger' = global_logger'
    /\ calls' = Append(calls, "Popen")
    /\ pc' = "streaming"
    /\ UNCHANGED <<cycle, user_choice, reply,
                   dry_run, auto_fix, enable_logging, backend, ollama_up,
                   api_key, patient, edits, captured_logs, returncode,
                   file_name, line_num, context, origin, ai, backend_failed,
                   solution, should_apply, success, read_at_apply, message,
                   raised>>

\* the lines the child may print
StreamLines == {<<Text, NL>>, <<Marker("app.py", 1), NL>>,
                <<Marker("app.py", 9), NL>>}

\* lines 146-148: one line of the child's output is read and kept
Stream ==
    /\ pc = "streaming"
    /\ Len(captured_logs) < MaxStream
    /\ \E line \in StreamLines : captured_logs' = Append(captured_logs, line)
    /\ UNCHANGED <<cycle, user_choice, reply,
                   pc, dry_run, auto_fix, enable_logging, backend, ollama_up,
                   api_key, patient, edits, returncode, file_name, line_num,
                   context, origin, ai, backend_failed, solution,
                   should_apply, success, read_at_apply, calls, message,
                   raised, global_logger, logger>>

\* line 150: end of stream, process.wait() returns
ChildExit ==
    /\ pc = "streaming"
    /\ \E code \in {0, 1} : returncode' = code
    /\ pc' = "exited"
    /\ UNCHANGED <<cycle, user_choice, reply,
                   dry_run, auto_fix, enable_logging, backend, ollama_up,
                   api_key, patient, edits, captured_logs, file_name,
                   line_num, context, origin, ai, backend_failed, solution,
                   should_apply, success, read_at_apply, calls, message,
                   raised, global_logger, logger>>

\* the handler of KeyboardInterrupt without its return: the child is
\* terminated and run_script goes on to look at its exit status
InterruptFallsThrough ==
    /\ pc = "streaming"
    /\ calls' = Append(calls, "terminate")
    /\ returncode' = 1
    /\ pc' = "exited"
    /\ UNCHANGED <<cycle, user_choice, reply,
                   dry_run, auto_fix, enable_logging, backend, ollama_up,
                   api_key, patient, edits, captured_logs, file_name,
                   line_num, context, origin, ai, backend_failed, solution,
                   should_apply, success, read_at_apply, message, raised,
                   global_logger, logger>>

\* lines 151-154: KeyboardInterrupt while streaming
Interrupt ==
    /\ pc = "streaming"
    /\ calls' = Append(calls, "terminate")
    /\ Finish("Stopping")
    /\ UNCHANGED <<cycle, user_choice, reply,
                   dry_run, auto_fix, enable_logging, backend, ollama_up,
                   api_key, patient, edits, captured_logs, returncode,
                   file_name, line_num, context, origin, ai, backend_failed,
                   solution, should_apply, success, read_at_apply, raised,
                   global_logger, logger>>

\* a test of line 165 that lets every result of parse_error through
located_always(found) == TRUE

\* line 165: if file_name and line_num
located(found) == found[1] # None /\ found[2] \notin {NoLine, 0}

\* lines 156-177 and 231-235: the exit status is looked at, the traceback parsed
CheckCrash ==
    /\ pc = "exited"
    /\ IF returncode # 0
       THEN LET found == parse_error(Join(captured_logs))
            IN  /\ file_name' = found[1]
                /\ line_num' = found[2]
                /\ IF located(found)
                   THEN /\ calls' = calls \o <<"parse_error">>
                                      \o (IF logger THEN <<"log_crash">> ELSE <<>>)
                        /\ pc' = "extract"
                        /\ UNCHANGED message
                   ELSE /\ calls' = Append(calls, "parse_error")
                        /\ Finish("Could not find a file path")
       ELSE /\ Finish("Process finished successfully")
            /\ UNCHANGED <<file_name, line_num, calls>>
    /\ UNCHANGED <<cycle, user_choice, reply,
                   dry_run, auto_fix, enable_logging, backend, ollama_up,
                   api_key, patient, edits, captured_logs, returncode,
                   context, origin, ai, backend_failed, solution,
                   should_apply, success, read_at_apply, raised,
                   global_logger, logger>>

\* the result of lines 179-183 on a file that can be opened
Extracted(file, crash_line) ==
    LET scoped == get_context(file, crash_line)
    IN  IF Truthy(scoped)
        THEN [text |-> scoped, origin |-> "FunctionScope",
              calls |-> <<"get_context">>]
        ELSE [text |-> get_file_window(file, crash_line),
              origin |-> "LineWindow",
              calls |-> <<"get_context", "get_file_window">>]

\* lines 179-189 and 229-230: the context is extracted
Extract ==
    /\ pc = "extract"
    /\ IF ~patient.readable
       THEN /\ raised' = [type |-> "OSError", hints |-> {}]
            /\ calls' = Append(calls, "get_context")
            /\ pc' = "raised"
            /\ UNCHANGED <<context, origin, message>>
       ELSE LET got == Extracted(patient, line_num)
            IN  /\ context' = got.text
                /\ origin' = got.origin
                /\ calls' = calls \o got.calls
                /\ UNCHANGED raised
                /\ IF Truthy(got.text)
                   THEN pc' = "query" /\ UNCHANGED message
                   ELSE Finish("Could not extract code context")
    /\ UNCHANGED <<cycle, user_choice, reply,
                   dry_run, auto_fix, enable_logging, backend, ollama_up,
                   api_key, patient, edits, captured_logs, returncode,
                   file_name, line_num, ai, backend_failed, solution,
                   should_apply, success, read_at_apply, global_logger,
                   logger>>

\* line 191: query_model
Query ==
    /\ pc = "query"
    /\ LET chosen == select(backend, ollama_up, api_key)
       IN  /\ ai' = chosen.ai
           /\ raised' = chosen.raised
           /\ IF chosen.raised # NoException
              THEN /\ calls' = calls \o <<"query_model">> \o chosen.calls
                   /\ pc' = "raised"
                   /\ UNCHANGED <<solution, reply, backend_failed>>
              ELSE LET asked == query(chosen.ai, ollama_up, api_key)
                   IN  /\ calls' = calls \o <<"query_model">> \o chosen.calls
                                     \o <<"query">> \o asked.calls
                       /\ \E r \in asked.replies :
                             /\ solution' = r.text
                             /\ reply' = r.text
                             /\ backend_failed' = r.failed
                       /\ pc' = "answered"
    /\ UNCHANGED <<cycle, user_choice,
                   dry_run, auto_fix, enable_logging, backend, ollama_up,
                   api_key, patient, edits, captured_logs, returncode,
                   file_name, line_num, context, origin, should_apply,
                   success, read_at_apply, message, global_logger, logger>>

\* the modes resolved with auto-fix ahead of dry-run
mode_auto_first(dry, auto) ==
    IF auto THEN "auto-fix" ELSE IF dry THEN "dry-run" ELSE "confirm"

\* lines 206-217: dry-run is tested first, then auto-fix, else the prompt
mode(dry, auto) ==
    IF dry THEN "dry-run" ELSE IF auto THEN "auto-fix" ELSE "confirm"

\* lines 193-217: the reply is sanitized, the diff shown, the mode decided
Present ==
    /\ pc = "answered"
    /\ IF ~Truthy(solution)
       THEN /\ Finish(None)
            /\ UNCHANGED <<solution, calls, should_apply>>
       ELSE LET shown == calls
                           \o (IF logger THEN <<"log_fix_generated">> ELSE <<>>)
                           \o <<"show_diff">>
            IN  /\ solution' = Sanitize(solution)
                /\ CASE mode(dry_run, auto_fix) = "dry-run" ->
                          /\ calls' = shown
                          /\ Finish("DRY-RUN")
                          /\ UNCHANGED should_apply
                     [] mode(dry_run, auto_fix) = "auto-fix" ->
                          /\ calls' = shown
                          /\ should_apply' = TRUE
                          /\ pc' = "apply"
                          /\ UNCHANGED message
                     [] OTHER ->
                          /\ calls' = Append(shown, "input")
                          /\ pc' = "input"
                          /\ UNCHANGED <<message, should_apply>>
    /\ UNCHANGED <<cycle, user_choice, reply,
                   dry_run, auto_fix, enable_logging, backend, ollama_up,
                   api_key, patient, edits, captured_logs, returncode,
                   file_name, line_num, context, origin, ai, backend_failed,
                   success, read_at_apply, raised, global_logger, logger>>

\* what the user may type at the prompt, and str.lower() of it
UserChoices == {"y", "Y", "n", ""}
LowerChoice(choice) == IF choice = "Y" THEN "y" ELSE choice

\* a test of the answer that takes everything but "n" for a yes
accepts_unless_no(choice) == LowerChoice(choice) # "n"

\* line 217: user_choice.lower() == "y"
accepts(choice) == LowerChoice(choice) = "y"

\* lines 216-219 and 227-228: the user answers the prompt
Answer ==
    /\ pc = "input"
    /\ \E typed \in UserChoices :
          /\ user_choice' = typed
          /\ should_apply' = accepts(typed)
          /\ IF should_apply'
             THEN pc' = "apply" /\ UNCHANGED message
             ELSE Finish("Skipping fix")
    /\ UNCHANGED <<cycle, reply,
                   dry_run, auto_fix, enable_logging, backend, ollama_up,
                   api_key, patient, edits, captured_logs, returncode,
                   file_name, line_num, context, origin, ai, backend_failed,
                   solution, success, read_at_apply, calls, raised,
                   global_logger, logger>>

\* lines 219-226: apply_fix and its report
Apply ==
    /\ pc = "apply"
    /\ LET fixed == apply_fix(patient.content, context, solution)
       IN  /\ read_at_apply' = patient.content
           /\ success' = fixed.ok
           /\ patient' = [patient EXCEPT !.content = fixed.content]
           /\ calls' = calls \o <<"apply_fix">>
                         \o (IF fixed.ok THEN <<"write">> ELSE <<>>)
                         \o (IF fixed.ok /\ logger
                             THEN <<"log_fix_applied">> ELSE <<>>)
           /\ Finish(IF fixed.ok THEN "Fix applied" ELSE "Failed to apply fix")
    /\ UNCHANGED <<cycle, user_choice, reply,
                   dry_run, auto_fix, enable_logging, backend, ollama_up,
                   api_key, edits, captured_logs, returncode, file_name,
                   line_num, context, origin, ai, backend_failed, solution,
                   should_apply, raised, global_logger, logger>>

\* what another program may make of the file: it puts a character in front,
\* or cuts the last one off
Edits(content) ==
    {<<"#">> \o content}
      \cup (IF content = <<>> THEN {}
            ELSE {SubSeq(content, 1, Len(content) - 1)})

\* the file changes on disk after the context was extracted
ExternalEdit ==
    /\ pc \in {"query", "answered", "input", "apply"}
    /\ edits < MaxEdits
    /\ edits' = edits + 1
    /\ \E edited \in Edits(patient.content) :
          patient' = [patient EXCEPT !.content = edited]
    /\ UNCHANGED <<cycle, user_choice, reply,
                   pc, dry_run, auto_fix, enable_logging, backend, ollama_up,
                   api_key, captured_logs, returncode, file_name, line_num,
                   context, origin, ai, backend_failed, solution,
                   should_apply, success, read_at_apply, calls, message,
                   raised, global_logger, logger>>

(***************************************************************************)
(* The diagnosis cycle from the call of run_script on.                     *)
(***************************************************************************)
NoCode == NoLine

\* the files a traceback of the cycle may point to: a function, top-level
\* statements only, blank lines only, a file that cannot be opened
Patients ==
    {File(2, {[kind |-> "FunctionDef", lineno |-> 1, end_lineno |-> 2]}, TRUE, TRUE),
     File(2, {}, TRUE, TRUE),
     [content |-> <<"\n", "\n">>, readable |-> TRUE, parsable |-> TRUE, nodes |-> {}],
     File(0, {}, TRUE, FALSE)}

\* the locals of run_script before anything ran
Locals ==
    /\ returncode = NoCode
    /\ file_name = None
    /\ line_num = NoLine
    /\ context = NoText
    /\ origin = None
    /\ ai = None
    /\ backend_failed = FALSE
    /\ solution = NoText
    /\ should_apply = FALSE
    /\ success = FALSE
    /\ read_at_apply = NoText
    /\ message = None
    /\ raised = NoException
    /\ reply = NoText
    /\ user_choice = None

Init ==
    /\ pc = "start"
    /\ dry_run \in BOOLEAN
    /\ auto_fix \in BOOLEAN
    /\ enable_logging \in BOOLEAN
    /\ backend \in {None, "ollama", "OpenAI", "gemini"}
    /\ ollama_up \in BOOLEAN
    /\ api_key \in BOOLEAN
    /\ patient \in Patients
    /\ edits = 0
    /\ captured_logs = <<>>
    /\ calls = <<>>
    /\ global_logger = FALSE
    /\ logger = FALSE
    /\ cycle = 1
    /\ Locals

Next ==
    \/ Start
    \/ Stream
    \/ ChildExit
    \/ Interrupt
    \/ CheckCrash
    \/ Extract
    \/ Query
    \/ Present
    \/ Answer
    \/ Apply
    \/ ExternalEdit

Spec == Init /\ [][Next]_vars

(***************************************************************************)
(* parse_error on synthetic output: the cycle from the child's exit on,    *)
(* with any captured output.                                               *)
(***************************************************************************)
LogItems == {Text, Marker("app.py", 1), Marker("lib.py", 2)}

LogLines == {Append(line, NL) : line \in Strings(LogItems, MaxItems)}

InitLocator ==
    /\ cycle = 1 /\ reply = NoText /\ user_choice = None
    /\ pc = "exited"
    /\ captured_logs \in Strings(LogLines, MaxLog)
    /\ returncode = 1
    /\ dry_run = FALSE /\ auto_fix = FALSE /\ enable_logging = FALSE
    /\ backend = None /\ ollama_up = FALSE /\ api_key = FALSE
    /\ patient = File(2, {}, TRUE, TRUE)
    /\ edits = 0
    /\ calls = <<"Popen">>
    /\ global_logger = FALSE /\ logger = FALSE
    /\ file_name = None /\ line_num = NoLine /\ context = NoText
    /\ origin = None /\ ai = None /\ backend_failed = FALSE
    /\ solution = NoText /\ should_apply = FALSE /\ success = FALSE
    /\ read_at_apply = NoText /\ message = None /\ raised = NoException

NextLocator == CheckCrash

SpecLocator == InitLocator /\ [][NextLocator]_vars

(***************************************************************************)
(* get_context and get_file_window on generated files: the cycle from the  *)
(* found location on, with any file and any crash line.                    *)
(***************************************************************************)
GeneratedFiles ==
    UNION {{File(n, t, TRUE, TRUE) : t \in Trees(n)}
             \cup {File(n, {}, FALSE, TRUE)} : n \in 0..MaxLines}
      \cup {File(0, {}, TRUE, FALSE)}

InitExtract ==
    /\ cycle = 1 /\ reply = NoText /\ user_choice = None
    /\ pc = "extract"
    /\ patient \in GeneratedFiles
    /\ file_name = "app.py"
    /\ line_num \in 1..(MaxLines + window + 1)
    /\ captured_logs = <<<<Marker("app.py", line_num), NL>>>>
    /\ returncode = 1
    /\ dry_run = FALSE /\ auto_fix = FALSE /\ enable_logging = FALSE
    /\ backend = None /\ ollama_up = FALSE /\ api_key = FALSE
    /\ edits = 0
    /\ calls = <<"Popen", "parse_error">>
    /\ global_logger = FALSE /\ logger = FALSE
    /\ context = NoText
    /\ origin = None /\ ai = None /\ backend_failed = FALSE
    /\ solution = NoText /\ should_apply = FALSE /\ success = FALSE
    /\ read_at_apply = NoText /\ message = None /\ raised = NoException

NextExtract == Extract

SpecExtract == InitExtract /\ [][NextExtract]_vars

(***************************************************************************)
(* apply_fix on any file content and any old and new code: the cycle from  *)
(* the decision to apply on.                                               *)
(***************************************************************************)
Alphabet == {"a", "b", " "}
OldAlphabet == {"a", " "}
NewAlphabet == {"b", " "}

InitApply ==
    /\ cycle = 1 /\ reply = NoText /\ user_choice = None
    /\ pc = "apply"
    /\ \E content \in Strings(Alphabet, MaxContent) :
          patient = [content |-> content, readable |-> TRUE,
                     parsable |-> FALSE, nodes |-> {}]
    /\ context \in Strings(OldAlphabet, MaxCode)
    /\ solution \in Strings(NewAlphabet, MaxCode)
    /\ should_apply = TRUE
    /\ file_name = "app.py" /\ line_num = 1
    /\ captured_logs = <<<<Marker("app.py", 1), NL>>>>
    /\ returncode = 1
    /\ dry_run = FALSE /\ auto_fix = TRUE /\ enable_logging = FALSE
    /\ backend = None /\ ollama_up = TRUE /\ api_key = FALSE
    /\ edits = 0
    /\ calls = <<"Popen", "parse_error", "get_context", "get_file_window",
                 "query_model", "ollama.is_available", "query",
                 "ollama.is_available", "show_diff">>
    /\ global_logger = FALSE /\ logger = FALSE
    /\ origin = "LineWindow" /\ ai = "ollama" /\ backend_failed = FALSE
    /\ success = FALSE
    /\ read_at_apply = NoText /\ message = None /\ raised = NoException

NextApply == Apply \/ ExternalEdit

SpecApply == InitApply /\ [][NextApply]_vars

(***************************************************************************)
(* The sanitizing of any backend response: the cycle from the return of    *)
(* query_model on, with responses that are bare or wrapped in a code fence *)
(* with one of several language tags.                                      *)
(***************************************************************************)
MaxBody == 2

BodyAlphabet == {"z", " "}
Padding == {<<>>, <<" ">>, <<"\n">>}
Tags == {<<>>, <<"p", "y">>, <<"p", "y", "t", "h", "o", "n">>,
         <<"p", "y", "t", "h", "o", "n", "3">>}

\* a response that wraps the code in a fence opened with a language tag
Fenced(before, tag, body, after) ==
    before \o Fence \o tag \o <<"\n">> \o body \o <<"\n">> \o Fence \o after

Responses ==
    {before \o body \o after :
        before \in Padding, body \in Strings(BodyAlphabet, MaxBody),
        after \in Padding}
    \cup {Fenced(before, tag, body, after) :
            before \in Padding, tag \in Tags,
            body \in Strings(BodyAlphabet, MaxBody), after \in Padding}

InitSanitize ==
    /\ cycle = 1 /\ user_choice = None
    /\ pc = "answered"
    /\ reply \in Responses
    /\ solution = reply
    /\ patient = [content |-> <<"a">>, readable |-> TRUE,
                  parsable |-> FALSE, nodes |-> {}]
    /\ context = <<"a">>
    /\ should_apply = FALSE
    /\ file_name = "app.py" /\ line_num = 1
    /\ captured_logs = <<<<Marker("app.py", 1), NL>>>>
    /\ returncode = 1
    /\ dry_run \in BOOLEAN /\ auto_fix \in BOOLEAN
    /\ enable_logging \in BOOLEAN
    /\ backend = None /\ ollama_up = TRUE /\ api_key = FALSE
    /\ edits = 0
    /\ global_logger = get_logger(FALSE, enable_logging)
    /\ logger = global_logger
    /\ calls = <<"Popen", "parse_error">>
                  \o (IF logger THEN <<"log_crash">> ELSE <<>>)
                  \o <<"get_context", "get_file_window", "query_model",
                       "ollama.is_available", "query", "ollama.is_available">>
    /\ origin = "LineWindow" /\ ai = "ollama" /\ backend_failed = FALSE
    /\ success = FALSE
    /\ read_at_apply = NoText /\ message = None /\ raised = NoException

NextSanitize == Present

SpecSanitize == InitSanitize /\ [][NextSanitize]_vars

(***************************************************************************)
(* Several calls of run_script in one process: the module-level logger of  *)
(* logger.py outlives a call; the locals do not, and each call is given    *)
(* its own command, switches and script file.                              *)
(***************************************************************************)
MaxCalls == 2

\* line 109: run_script is called again, with its command and switches
\* chosen anew
NewCall ==
    /\ pc \in {"done", "raised"}
    /\ cycle < MaxCalls
    /\ cycle' = cycle + 1
    /\ pc' = "start"
    /\ dry_run' \in BOOLEAN
    /\ auto_fix' \in BOOLEAN
    /\ enable_logging' \in BOOLEAN
    /\ patient' \in Patients
    /\ edits' = 0
    /\ captured_logs' = <<>>
    /\ calls' = <<>>
    /\ logger' = FALSE
    /\ returncode' = NoCode
    /\ file_name' = None
    /\ line_num' = NoLine
    /\ context' = NoText
    /\ origin' = None
    /\ ai' = None
    /\ backend_failed' = FALSE
    /\ solution' = NoText
    /\ should_apply' = FALSE
    /\ success' = FALSE
    /\ read_at_apply' = NoText
    /\ message' = None
    /\ raised' = NoException
    /\ reply' = NoText
    /\ user_choice' = None
    /\ UNCHANGED <<backend, ollama_up, api_key, global_logger>>

\* the first call, with the backend chosen automatically and Ollama running
InitCycles == Init /\ backend = None /\ ollama_up /\ ~api_key

NextCycles == Next \/ NewCall

SpecCycles == InitCycles /\ [][NextCycles]_vars

(***************************************************************************)
(* Properties.                                                             *)
(***************************************************************************)
Called(name) == \E i \in 1..Len(calls) : calls[i] = name

Applied == pc = "done" /\ Called("apply_fix")

\* C1: whenever the trimmed old code occurs in the file apply_fix read,
\* apply_fix returns true and the file afterwards is that content with the
\* first occurrence alone of the trimmed old code replaced by the trimmed
\* new code.  (Stated for a non-empty trimmed old code, the case of the
\* claim that speaks of occurrences; it fails there already.)
C1_FirstOccurrenceOnly ==
    (Applied /\ Strip(context) # <<>> /\ IsSubstr(Strip(context), read_at_apply))
        => /\ success
           /\ patient.content
                = ReplaceFirst(read_at_apply, Strip(context), Strip(solution))

\* C2: whenever the trimmed old code does not occur in the content apply_fix
\* read, apply_fix returns false, nothing is written and the file is what
\* it was, also when the file was edited after the extraction.
C2_MismatchLeavesFile ==
    (Applied /\ ~IsSubstr(Strip(context), read_at_apply))
        => /\ ~success
           /\ ~Called("write")
           /\ patient.content = read_at_apply
           /\ message = "Failed to apply fix"

\* C2 witness: an edit cut the last character off, the old code occurred in
\* the file before it and no longer does, and apply_fix refused.
C2_Witness ==
    /\ Applied
    /\ edits = 1
    /\ Strip(context) # <<>>
    /\ ~IsSubstr(Strip(context), read_at_apply)
    /\ \E c \in Alphabet : IsSubstr(Strip(context), Append(read_at_apply, c))
    /\ ~success
    /\ patient.content = read_at_apply

Last(seq) == seq[Len(seq)]

\* the calls run_script makes to diagnose a crash
Diagnosis == {"parse_error", "log_crash", "get_context", "get_file_window",
              "query_model", "ollama.is_available", "openai.is_available",
              "query", "log_fix_generated", "show_diff", "input",
              "apply_fix", "write", "log_fix_applied"}

NoneCalled(names) == \A i \in 1..Len(calls) : calls[i] \notin names

\* C3: in a dry run, whatever auto_fix and whatever the backend replies,
\* run_script never writes the file (apply_fix is not even called) and never
\* prompts; the dry-run message is printed only after the diff, and once the
\* diff is shown the cycle has ended with it.
C3_DryRunNeverWrites ==
    dry_run =>
        /\ NoneCalled({"write", "apply_fix", "input", "log_fix_applied"})
        /\ pc \notin {"input", "apply"}
        /\ message = "DRY-RUN" => Called("show_diff")
        /\ Called("show_diff") =>
              /\ pc = "done"
              /\ message = "DRY-RUN"
              /\ Last(calls) = "show_diff"

\* C3 witness: a dry run with auto_fix also set has shown the diff and ended.
C3_Witness ==
    /\ dry_run /\ auto_fix
    /\ pc = "done"
    /\ Called("show_diff")
    /\ ~backend_failed

\* C4: after a clean exit the Locator, the Extractor and the Backend are
\* never called; after a crash in whose output the Locator finds nothing,
\* the cycle has ended with neither an Extractor call nor a Backend query.
C4_StagesNeedPreconditions ==
    /\ returncode = 0 =>
          NoneCalled({"parse_error", "get_context", "get_file_window",
                      "query_model", "query"})
    /\ (Called("parse_error") /\ file_name = None) =>
          /\ pc = "done"
          /\ message = "Could not find a file path"
          /\ NoneCalled({"get_context", "get_file_window", "query_model",
                         "query"})

\* C4 witness: the child printed a location marker and then exited with
\* status 0; the cycle ended with no diagnosis.
C4_Witness ==
    /\ pc = "done"
    /\ returncode = 0
    /\ \E i \in 1..Len(captured_logs) : Search(captured_logs[i]) # 0
    /\ message = "Process finished successfully"

\* C4 witness of the second case: a crash whose output names no location.
C4_WitnessNoLocation ==
    /\ pc = "done"
    /\ returncode = 1
    /\ Len(captured_logs) > 0
    /\ Called("parse_error")
    /\ file_name = None

\* the place in calls of the first call of that name
IndexOf(name) == CHOOSE i \in 1..Len(calls) :
                    calls[i] = name /\ \A j \in 1..(i - 1) : calls[j] # name

\* C8: under auto-selection the local backend's availability is evaluated
\* first; when it is available it is chosen, the cloud backend's
\* availability is not evaluated and no credential is needed; the cloud
\* backend is evaluated only after the local one reported unavailable and
\* is chosen only then; when neither is available auto_select raises an
\* error naming both configuration hints.
C8_LocalBeforeCloud ==
    (backend = None /\ Called("query_model")) =>
        /\ calls[IndexOf("query_model") + 1] = "ollama.is_available"
        /\ ollama_up =>
              /\ ai = "ollama"
              /\ ~Called("openai.is_available")
              /\ raised = NoException
        /\ Called("openai.is_available") =>
              /\ ~ollama_up
              /\ IndexOf("ollama.is_available") < IndexOf("openai.is_available")
        /\ ai = "openai" => ~ollama_up /\ api_key
        /\ (~ollama_up /\ api_key) => ai = "openai" /\ raised = NoException
        /\ (~ollama_up /\ ~api_key) =>
              /\ ai = None
              /\ raised = [type |-> "RuntimeError",
                           hints |-> {"Install Ollama", "set OPENAI_API_KEY"}]

\* C8 witness: auto-selection chose the local backend with no credential set.
C8_Witness ==
    /\ backend = None
    /\ Called("query_model")
    /\ ollama_up /\ ~api_key
    /\ ai = "ollama"
    /\ pc = "answered"

\* C9: no failure is fatal: no exception leaves run_script, and a file that
\* cannot be read ends the cycle with the context-not-found message and no
\* backend query.
C9_NoFailureIsFatal ==
    /\ raised = NoException
    /\ pc # "raised"
    /\ (Called("get_context") /\ ~patient.readable) =>
          /\ pc = "done"
          /\ message = "Could not extract code context"
          /\ ~Called("query_model")

\* C10: once the interrupt arrived during streaming the child is terminated
\* and the cycle has ended: terminating the child is the last call made, no
\* Locator, Extractor, Backend, diff, prompt or write was or is called, and
\* the exit status is never looked at.
C10_InterruptAborts ==
    /\ Called("terminate") =>
          /\ pc = "done"
          /\ message = "Stopping"
          /\ Last(calls) = "terminate"
          /\ NoneCalled(Diagnosis)
          /\ returncode = NoCode
    /\ message = "Stopping" => Called("terminate")

\* C10 witness: the interrupt arrived after the child had printed a
\* location marker.
C10_Witness ==
    /\ Called("terminate")
    /\ \E i \in 1..Len(captured_logs) : Search(captured_logs[i]) # 0
    /\ pc = "done"

SetMax(S) == CHOOSE x \in S : \A y \in S : y <= x
SetMin(S) == CHOOSE x \in S : \A y \in S : x <= y

\* the text parse_error was given, and the places of its markers
ErrorText == Join(captured_logs)
MarkerPlaces == {i \in 1..Len(ErrorText) : IsMarker(ErrorText[i])}

\* C5 as claimed: parse_error returns the path and line of the marker that
\* occurs last in the text, also when its line holds several markers, and
\* returns absent without raising when the text holds none.
C5_LastMarkerInText ==
    Called("parse_error") =>
        /\ raised = NoException
        /\ IF MarkerPlaces = {}
           THEN file_name = None /\ line_num = NoLine
           ELSE LET last == ErrorText[SetMax(MarkerPlaces)]
                IN  file_name = last.path /\ line_num = last.line

\* the lines of the captured output that hold a marker
MarkedLines == {i \in 1..Len(captured_logs) :
                   \E j \in 1..Len(captured_logs[i]) : IsMarker(captured_logs[i][j])}

\* C5 as amended: parse_error returns the leftmost marker of the last line
\* that holds a marker (never one of an earlier line), and returns absent
\* without raising when the text holds no marker.
C5_FirstMarkerOfLastMarkedLine ==
    Called("parse_error") =>
        /\ raised = NoException
        /\ IF MarkedLines = {}
           THEN file_name = None /\ line_num = NoLine
           ELSE LET line == captured_logs[SetMax(MarkedLines)]
                    first == line[SetMin({j \in 1..Len(line) : IsMarker(line[j])})]
                IN  file_name = first.path /\ line_num = first.line

\* C5 witness: two frames on two lines, the second line holding two markers;
\* parse_error returned the first marker of the second line.
C5_Witness ==
    /\ Called("parse_error")
    /\ captured_logs = <<<<Marker("lib.py", 2), NL>>,
                         <<Marker("app.py", 1), Marker("lib.py", 2), NL>>>>
    /\ file_name = "app.py"
    /\ line_num = 1

\* the first definition of the walk, plain or async, that encloses the line
FirstFunction ==
    FirstEnclosing(Walk(patient.nodes), {"FunctionDef", "AsyncFunctionDef"}, line_num)

Extracting == Called("get_context") /\ patient.readable

\* C6: for a file that parses and a crash line inside some function
\* definition, plain or async, the context is the source slice of the first
\* such definition of the walk that encloses the line, not a line window.
C6_FunctionScopeOfAnyKind ==
    (Extracting /\ patient.parsable /\ FirstFunction.found) =>
        /\ origin = "FunctionScope"
        /\ context = get_source_segment(patient.content, FirstFunction.node)

\* C7: when the file does not parse or no function definition encloses the
\* crash line L, the context is the lines max(1, L-5) .. min(n, L+5) of the
\* n lines of the file: at most 11 lines, and for 1 <= L <= n not empty,
\* holding line L, and handed on to the prompt.
C7_WindowClipped ==
    (Extracting /\ (~patient.parsable \/ ~FirstFunction.found)) =>
        LET lines == SplitLines(patient.content, "\n", TRUE)
            n == Len(lines)
            lo == Max(1, line_num - window)
            hi == Min(n, line_num + window)
            kept == [i \in 1..(hi - lo + 1) |-> lines[lo + i - 1]]
        IN  /\ origin = "LineWindow"
            /\ Called("get_file_window")
            /\ context = Join(kept)
            /\ Len(SplitLines(context, "\n", TRUE)) <= 2 * window + 1
            /\ (1 <= line_num /\ line_num <= n) =>
                  /\ context # <<>>
                  /\ kept[line_num - lo + 1] = lines[line_num]
                  /\ pc = "query"

\* C7 witness: an unparsable file of more than 11 lines and the crash on its
\* last line: the window is the last 6 lines.
C7_Witness ==
    /\ Extracting
    /\ ~patient.parsable
    /\ Len(SplitLines(patient.content, "\n", TRUE)) > 2 * window + 1
    /\ line_num = Len(SplitLines(patient.content, "\n", TRUE))
    /\ Len(SplitLines(context, "\n", TRUE)) = window + 1
    /\ origin = "LineWindow"

\* C11: whenever run_script wrote the file, the diff was shown before the
\* write and either auto_fix was set and no prompt was issued, or the prompt
\* was issued after the diff and before the write and answered yes; after a
\* prompt answered otherwise the cycle ends with no call of apply_fix and no
\* write.
C11_WriteNeedsDiffAndConsent ==
    /\ Called("write") =>
          /\ Called("show_diff")
          /\ IndexOf("show_diff") < IndexOf("write")
          /\ \/ auto_fix /\ ~Called("input") /\ user_choice = None
             \/ /\ ~auto_fix
                /\ Called("input")
                /\ IndexOf("show_diff") < IndexOf("input")
                /\ IndexOf("input") < IndexOf("write")
                /\ user_choice \in {"y", "Y"}
    /\ (Called("input") /\ pc = "done" /\ user_choice \notin {"y", "Y"}) =>
          /\ NoneCalled({"apply_fix", "write", "log_fix_applied"})
          /\ message = "Skipping fix"

\* C11 witness: in default mode the prompt was answered "Y" and the file
\* was written.
C11_Witness ==
    /\ ~auto_fix /\ ~dry_run
    /\ user_choice = "Y"
    /\ Called("write")
    /\ success
    /\ pc = "done"

\* C11 witness of the refusal: the prompt was answered with an empty line.
C11_WitnessRefused ==
    /\ Called("input")
    /\ user_choice = ""
    /\ pc = "done"
    /\ message = "Skipping fix"

\* C12: a backend failure comes back from query as an error string with
\* nothing raised, and in no mode is apply_fix then called with that string
\* as the new code, so no write follows a failed backend call.
C12_FailedBackendNeverApplied ==
    backend_failed =>
       /\ raised = NoException
       /\ reply = ErrorReply
       /\ NoneCalled({"apply_fix", "write"})

\* C14: when the extracted context is empty after trimming, a call of
\* apply_fix reports a mismatch and writes nothing: the file keeps the
\* content it was read with and the fix is inserted nowhere.
C14_EmptyContextLeavesFile ==
    (Called("apply_fix") /\ Truthy(context) /\ Strip(context) = <<>>) =>
       /\ ~success
       /\ ~Called("write")
       /\ edits = 0 => patient.content = read_at_apply

\* C13: once a response was sanitized and shown, the proposed fix holds no
\* fence marker, has no leading or trailing whitespace, and, for a response
\* that wrapped the code in a fence opened with any language tag, is the
\* trimmed code alone, with nothing of the tag left.
C13_NoFenceNoResidue ==
    (Called("show_diff") /\ pc # "answered") =>
       /\ ~IsSubstr(Fence, solution)
       /\ Strip(solution) = solution
       /\ \A before \in Padding, tag \in Tags, after \in Padding,
             body \in Strings(BodyAlphabet, MaxBody) :
             reply = Fenced(before, tag, body, after) =>
                solution = Strip(body)

\* C15: in every call of run_script, also one that follows a call with
\* logging enabled in the same process, a call made with logging disabled
\* emits no log event.
C15_DisabledCallLogsNothing ==
    ~enable_logging =>
       NoneCalled({"log_crash", "log_fix_generated", "log_fix_applied"})

====
